---- MODULE Spec2Model ----
(***************************************************************************)
(* A model of the PBIR rename tool: the CSV mapping loader, the mapping     *)
(* resolver, the DAX expression rewriter (two regular-expression passes),   *)
(* the two recursive document passes (update_entity, update_property) and   *)
(* the batch driver, as found in pbir_utils.py and in the standalone        *)
(* script update_attribute_names_pbir.py.                                   *)
(*                                                                          *)
(* Python strings are sequences of one-character strings.  A JSON value is  *)
(* a record [t |-> tag, s, n, items, entries], of which the tag says which  *)
(* field holds the payload; a mapping keeps its entries in                  *)
(* insertion order, as a Python dict does.                                  *)
(***************************************************************************)
EXTENDS Integers, Sequences, FiniteSets, TLC

VARIABLES
    variant,      \* which source file runs: "pbir_utils" or "update_attribute_names_pbir"
    pc,           \* position of the running function
    csv,          \* the CSV file: [fieldnames, rows]
    mappings,     \* update_json_files_in_directory: mappings
    table_map,    \* table_map (also the argument of update_dax_expression)
    column_map,   \* column_map (also the argument of update_dax_expression)
    files,        \* the .json files under directory_path, in os.walk order
    orig,         \* the files as they were before the first run (history)
    idx,          \* index of the next file of the walk
    run,          \* number of the current run of the batch
    trace,        \* what each process_json_file call did (history)
    expression0,  \* update_dax_expression: the argument expression (history)
    expression    \* update_dax_expression: the local variable expression

vars == <<variant, pc, csv, mappings, table_map, column_map, files, orig, idx,
          run, trace, expression0, expression>>

----------------------------------------------------------------------------
(* Characters and names *)

WordChars == {"S", "R", "A", "T", "H", "n", "a", "m", "e"}

\* \w of pattern 1 and [A-Za-z0-9_] of pattern 2 agree on the letters used here
IsWord(c) == c \in WordChars

\* \s of pattern 1 and the blank inside [A-Za-z0-9_ ] of pattern 2
IsSpace(c) == c = " "

QUOTE == "'"

S_ == <<"S">>
R_ == <<"R">>
A_ == <<"A">>
T_ == <<"T">>
SH_ == <<"S", " ", "H">>

\* Python: ' ' in s
HasSpace(s) == \E i \in 1..Len(s) : s[i] = " "

\* Python: needle in haystack, for two str values
IsSubstring(needle, hay) ==
    \E i \in 0..(Len(hay) - Len(needle)) :
        \A j \in 1..Len(needle) : hay[i + j] = needle[j]

\* Python: a dict used as a condition (None and {} are both false)
Truthy(map) == DOMAIN map # {}

EmptyMap == [x \in {} |-> x]

----------------------------------------------------------------------------
(* update_dax_expression, pass 1:                                           *)
(*   (?<!\[)('+)?(\b[\w\s]+?\b)\1|\b([\w]+)\b(?!\])                        *)

\* number of consecutive characters of class cls from position i on
RECURSIVE RunLen(_, _, _)
RunLen(s, i, cls) ==
    IF i > Len(s) THEN 0
    ELSE IF (cls = "quote" /\ s[i] = QUOTE)
            \/ (cls = "word" /\ IsWord(s[i]))
            \/ (cls = "wordspace" /\ (IsWord(s[i]) \/ IsSpace(s[i])))
         THEN 1 + RunLen(s, i + 1, cls)
         ELSE 0

NoMatch == [hit |-> FALSE, end |-> 0, quotes |-> 0, from |-> 0, to |-> 0]

\* First alternative at position i, with q quotes there and m characters of
\* [\w\s] after them.  Group 1 must take part (a backreference to an unset
\* group fails), and it must take every quote of the run: with fewer, \b
\* would stand between two quotes.  The lazy body stops at the first place
\* followed by the same quotes, which is the end of the run of [\w\s]; \b
\* asks that the body starts and ends with a word character.
TableAlt1Body(s, i, q, m) ==
    IF i > 1 /\ s[i - 1] = "[" THEN NoMatch
    ELSE IF q = 0 \/ m = 0 THEN NoMatch
    ELSE IF ~IsWord(s[i + q]) \/ ~IsWord(s[i + q + m - 1]) THEN NoMatch
    ELSE IF RunLen(s, i + q + m, "quote") < q THEN NoMatch
    ELSE [hit |-> TRUE, end |-> i + q + m + q, quotes |-> q,
          from |-> i + q, to |-> i + q + m - 1]

TableAlt1Quotes(s, i, q) == TableAlt1Body(s, i, q, RunLen(s, i + q, "wordspace"))

TableAlt1(s, i) == TableAlt1Quotes(s, i, RunLen(s, i, "quote"))

\* Second alternative at position i, with m word characters there: a whole
\* word not followed by "]"
TableAlt2Body(s, i, m) ==
    IF m = 0 THEN NoMatch
    ELSE IF i > 1 /\ IsWord(s[i - 1]) THEN NoMatch
    ELSE IF i + m <= Len(s) /\ s[i + m] = "]" THEN NoMatch
    ELSE [hit |-> TRUE, end |-> i + m, quotes |-> 0, from |-> i, to |-> i + m - 1]

TableAlt2(s, i) == TableAlt2Body(s, i, RunLen(s, i, "word"))

\* the alternation: the first alternative that matches
FirstHit(m1, m2) == IF m1.hit THEN m1 ELSE m2

TableMatch(s, i) == FirstHit(TableAlt1(s, i), TableAlt2(s, i))

Quotes(q) == [k \in 1..q |-> QUOTE]

\* TableReplacement without the quotes forced by a blank in the new name
TableReplacement_keep_style(full_match, quotes, table_name, tm) ==
    IF table_name \in DOMAIN tm
    THEN quotes \o tm[table_name] \o quotes
    ELSE full_match

\* the return statements of replace_table_name
TableReplacement(full_match, quotes, table_name, tm) ==
    IF table_name \in DOMAIN tm
    THEN IF HasSpace(tm[table_name]) /\ quotes = <<>>
         THEN <<QUOTE>> \o tm[table_name] \o <<QUOTE>>
         ELSE quotes \o tm[table_name] \o quotes
    ELSE full_match

\* replace_table_name(match), for the match mt found at position i
replace_table_name(s, i, mt, tm) ==
    TableReplacement(SubSeq(s, i, mt.end - 1), Quotes(mt.quotes),
                     SubSeq(s, mt.from, mt.to), tm)

\* pattern.sub(replace_table_name, expression), scanning from position i
RECURSIVE TableSub(_, _, _)
TableSubAt(s, i, tm, mt) ==
    IF mt.hit
    THEN replace_table_name(s, i, mt, tm) \o TableSub(s, mt.end, tm)
    ELSE <<s[i]>> \o TableSub(s, i + 1, tm)

TableSub(s, i, tm) ==
    IF i > Len(s) THEN <<>> ELSE TableSubAt(s, i, tm, TableMatch(s, i))

----------------------------------------------------------------------------
(* update_dax_expression, pass 2:                                           *)
(*   ('[A-Za-z0-9_ ]+'?|[A-Za-z0-9_]+)\[([A-Za-z0-9_]+)\]                  *)

\* \[([A-Za-z0-9_]+)\] at position p, with c word characters after p: the
\* position after "]", or 0
BracketEndBody(s, p, c) ==
    IF p <= Len(s) /\ s[p] = "[" /\ c > 0 /\ p + 1 + c <= Len(s) /\ s[p + 1 + c] = "]"
    THEN p + c + 2
    ELSE 0

BracketEnd(s, p) == BracketEndBody(s, p, RunLen(s, p + 1, "word"))

NoColMatch == [hit |-> FALSE, end |-> 0, part_to |-> 0]

\* the qualifier s[i..part_to] followed by a bracket that ends before e
ColHit(e, part_to) ==
    IF e > 0 THEN [hit |-> TRUE, end |-> e, part_to |-> part_to] ELSE NoColMatch

\* The quoted qualifier at position i, with r characters of [A-Za-z0-9_ ]
\* after the quote.  The greedy run must be taken whole: what follows it
\* ("'" or "[") is outside its class; the closing quote is optional.
ColumnQuoted(s, i, r) ==
    IF r = 0 THEN NoColMatch
    ELSE IF i + 1 + r <= Len(s) /\ s[i + 1 + r] = QUOTE
         THEN ColHit(BracketEnd(s, i + r + 2), i + 1 + r)
         ELSE ColHit(BracketEnd(s, i + 1 + r), i + r)

\* The bare qualifier at position i, with r word characters there
ColumnBare(s, i, r) ==
    IF r = 0 THEN NoColMatch ELSE ColHit(BracketEnd(s, i + r), i + r - 1)

ColumnMatch(s, i) ==
    IF s[i] = QUOTE
    THEN ColumnQuoted(s, i, RunLen(s, i + 1, "wordspace"))
    ELSE ColumnBare(s, i, RunLen(s, i, "word"))

\* Python: s.strip("'")
RECURSIVE StripQuotes(_)
StripQuotes(s) ==
    IF s # <<>> /\ Head(s) = QUOTE THEN StripQuotes(Tail(s))
    ELSE IF s # <<>> /\ s[Len(s)] = QUOTE THEN StripQuotes(SubSeq(s, 1, Len(s) - 1))
    ELSE s

\* the new column name, and the table name, that column_map holds for a
\* key: pbir_utils.py stores the column name, the script a pair
MappedColumn(cm, key, v) == IF v = "pbir_utils" THEN cm[key] ELSE cm[key][2]
MappedTable(cm, key, v) == IF v = "pbir_utils" THEN key[1] ELSE cm[key][1]

\* the qualifier written back: quoted if the table name has a blank or the
\* qualifier was quoted
Requoted(table, table_part) ==
    IF HasSpace(table) \/ Head(table_part) = QUOTE
    THEN <<QUOTE>> \o table \o <<QUOTE>>
    ELSE table

\* the return statements of replace_column_name
ColumnReplacement(full_match, table_part, key, cm, v) ==
    IF key \in DOMAIN cm
    THEN Requoted(MappedTable(cm, key, v), table_part)
         \o <<"[">> \o MappedColumn(cm, key, v) \o <<"]">>
    ELSE full_match

\* replace_column_name(match), for the match mt found at position i
replace_column_name(s, i, mt, cm, v) ==
    ColumnReplacement(SubSeq(s, i, mt.end - 1), SubSeq(s, i, mt.part_to),
                      <<StripQuotes(SubSeq(s, i, mt.part_to)),
                        SubSeq(s, mt.part_to + 2, mt.end - 2)>>,
                      cm, v)

\* pattern.sub(replace_column_name, expression), scanning from position i
RECURSIVE ColumnSub(_, _, _, _)
ColumnSubAt(s, i, cm, v, mt) ==
    IF mt.hit
    THEN replace_column_name(s, i, mt, cm, v) \o ColumnSub(s, mt.end, cm, v)
    ELSE <<s[i]>> \o ColumnSub(s, i + 1, cm, v)

ColumnSub(s, i, cm, v) ==
    IF i > Len(s) THEN <<>> ELSE ColumnSubAt(s, i, cm, v, ColumnMatch(s, i))

\* the block under "if table_map:"
TablePass(e, tm) == IF Truthy(tm) THEN TableSub(e, 1, tm) ELSE e

\* the block under "if column_map:"
ColumnPass(e, cm, v) == IF Truthy(cm) THEN ColumnSub(e, 1, cm, v) ELSE e

\* update_dax_expression with the two blocks in the other order
update_dax_expression_column_first(e, tm, cm, v) == TablePass(ColumnPass(e, cm, v), tm)

\* update_dax_expression(expression, table_map, column_map); an argument
\* left out (None) is the empty map, which is as false as None
update_dax_expression(e, tm, cm, v) == ColumnPass(TablePass(e, tm), cm, v)

----------------------------------------------------------------------------
(* JSON values, as json.load builds them *)

Blank == [t |-> "null", s |-> <<>>, n |-> 0, items |-> <<>>, entries |-> <<>>]
JNull == Blank
JBool(b) == [Blank EXCEPT !.t = "bool", !.n = IF b THEN 1 ELSE 0]
JNum(n) == [Blank EXCEPT !.t = "num", !.n = n]
JStr(s) == [Blank EXCEPT !.t = "str", !.s = s]
JList(items) == [Blank EXCEPT !.t = "list", !.items = items]
JDict(entries) == [Blank EXCEPT !.t = "dict", !.entries = entries]
Entry(k, val) == [k |-> k, v |-> val]

\* what dict.get(key) returns for an absent key: Python's None
PyNone == JNull

NAME_ == <<"n", "a", "m", "e">>
EXPRESSION_ == <<"e", "x", "p", "r", "e", "s", "s", "i", "o", "n">>
FROM_ == <<"F", "r", "o", "m">>
WHERE_ == <<"W", "h", "e", "r", "e">>

\* the characters of a key of the documents, for Python's  "name" in a_key
KeyChars(k) ==
    CASE k = "name" -> NAME_
      [] k = "expression" -> EXPRESSION_
      [] k = "From" -> FROM_
      [] k = "Where" -> WHERE_
      [] OTHER -> <<>>

HasKey(d, k) == \E i \in 1..Len(d.entries) : d.entries[i].k = k
KeyIndex(d, k) == CHOOSE i \in 1..Len(d.entries) : d.entries[i].k = k
GetKey(d, k) == d.entries[KeyIndex(d, k)].v
SetKey(d, k, val) == [d EXCEPT !.entries[KeyIndex(d, k)].v = val]
SetAt(d, i, val) == [d EXCEPT !.entries[i].v = val]
SetItem(l, i, val) == [l EXCEPT !.items[i] = val]

\* Python: hash(x) succeeds (a list or a dict is unhashable)
Hashable(x) == x.t \notin {"list", "dict"}

\* Python: bool(x)
Truthiness(x) ==
    CASE x.t = "null" -> FALSE
      [] x.t = "bool" -> x.n = 1
      [] x.t = "num" -> x.n # 0
      [] x.t = "str" -> x.s # <<>>
      [] x.t = "list" -> x.items # <<>>
      [] OTHER -> x.entries # <<>>

\* Python: key in x, for a str key and any x; "raise" when x is not a container
PyIn(key, x) ==
    CASE x.t = "dict" -> IF HasKey(x, key) THEN "yes" ELSE "no"
      [] x.t = "str" -> IF IsSubstring(KeyChars(key), x.s) THEN "yes" ELSE "no"
      [] x.t = "list" -> IF \E i \in 1..Len(x.items) : x.items[i] = JStr(KeyChars(key))
                         THEN "yes" ELSE "no"
      [] OTHER -> "raise"

\* The outcome of a call: the value as mutated so far, the nonlocal flag
\* updated, and the exception that left the call ("none": it returned)
Ok(d, u) == [data |-> d, updated |-> u, err |-> "none"]
Raise(d, u, e) == [data |-> d, updated |-> u, err |-> e]

----------------------------------------------------------------------------
(* update_entity(data, table_map) *)

\* the flag of what ran before joined to the outcome of what ran after
After(u, rest) == [rest EXCEPT !.updated = u \/ rest.updated]

\* the outcome r of a step on element i of a list, stored in the list
InList(l, i, r) == [r EXCEPT !.data = SetItem(l, i, r.data)]

\* the outcome r of a step on the value of entry i of a dict, stored in it
InDict(d, i, r) == [r EXCEPT !.data = SetAt(d, i, r.data)]

\* data[key] = update_dax_expression(original_expression, ...) and the
\* comparison that sets the flag
Rewritten(original_expression, new) == Ok(JStr(new), new # original_expression)

RECURSIVE UE_traverse(_, _, _)
RECURSIVE UE_dict(_, _, _, _)
RECURSIVE UE_list(_, _, _, _)
RECURSIVE UE_entities(_, _, _, _)

\* entity["name"] in table_map, and the assignment under it
UE_name_value(entity, name, tm) ==
    IF ~Hashable(name) THEN Raise(entity, FALSE, "TypeError")
    ELSE IF name.t = "str" /\ name.s \in DOMAIN tm
         THEN Ok(SetKey(entity, "name", JStr(tm[name.s])), TRUE)
    ELSE Ok(entity, FALSE)

\* the first if inside "for entity in value": entity["name"] of a str or
\* of a list raises
UE_entity_name(entity, tm, in) ==
    IF in = "raise" THEN Raise(entity, FALSE, "TypeError")
    ELSE IF in = "no" THEN Ok(entity, FALSE)
    ELSE IF entity.t # "dict" THEN Raise(entity, FALSE, "TypeError")
    ELSE UE_name_value(entity, GetKey(entity, "name"), tm)

\* entity["expression"] = update_dax_expression(...), when it is a str
UE_expression_value(entity, value, tm, v) ==
    IF value.t = "str"
    THEN InDict(entity, KeyIndex(entity, "expression"),
                Rewritten(value.s, update_dax_expression(value.s, tm, EmptyMap, v)))
    ELSE Ok(entity, FALSE)

\* the second if inside "for entity in value", which only the standalone
\* script has
UE_entity_expression(entity, tm, v, in) ==
    IF v = "pbir_utils" THEN Ok(entity, FALSE)
    ELSE IF in = "raise" THEN Raise(entity, FALSE, "TypeError")
    ELSE IF in = "no" THEN Ok(entity, FALSE)
    ELSE IF entity.t # "dict" THEN Raise(entity, FALSE, "TypeError")
    ELSE UE_expression_value(entity, GetKey(entity, "expression"), tm, v)

\* one turn of "for entity in value" on element i of the list value: the
\* name (r1), then the expression (r2), then the recursive call (r3), then
\* the next turn
UE_entity_3(value, i, tm, v, r3) ==
    IF r3.err # "none" THEN InList(value, i, r3)
    ELSE After(r3.updated, UE_entities(SetItem(value, i, r3.data), i + 1, tm, v))

UE_entity_2(value, i, tm, v, r2) ==
    IF r2.err # "none" THEN InList(value, i, r2)
    ELSE UE_entity_3(value, i, tm, v, After(r2.updated, UE_traverse(r2.data, tm, v)))

UE_entity_1(value, i, tm, v, r1) ==
    IF r1.err # "none" THEN InList(value, i, r1)
    ELSE UE_entity_2(value, i, tm, v,
            After(r1.updated,
                  UE_entity_expression(r1.data, tm, v, PyIn("expression", r1.data))))

UE_entities(value, i, tm, v) ==
    IF i > Len(value.items) THEN Ok(value, FALSE)
    ELSE UE_entity_1(value, i, tm, v,
            UE_entity_name(value.items[i], tm, PyIn("name", value.items[i])))

\* the branch  elif key == "entities"
UE_entities_branch(value, tm, v) ==
    CASE value.t = "list" -> UE_entities(value, 1, tm, v)
         \* a dict is iterated by its keys, which are str: a key that holds
         \* "name" (or "expression", in the script) is then indexed by a str
      [] value.t = "dict" ->
           IF \E i \in 1..Len(value.entries) :
                 \/ IsSubstring(NAME_, KeyChars(value.entries[i].k))
                 \/ (v # "pbir_utils"
                     /\ IsSubstring(EXPRESSION_, KeyChars(value.entries[i].k)))
           THEN Raise(value, FALSE, "TypeError")
           ELSE Ok(value, FALSE)
         \* a str is iterated by its characters, none of which holds "name"
      [] value.t = "str" -> Ok(value, FALSE)
      [] OTHER -> Raise(value, FALSE, "TypeError")

\* UE_key with "updated = True" one level out, under "if key == 'Entity'"
UE_key_flag_outdented(key, value, tm, v) ==
    IF key = "Entity" /\ ~Hashable(value) THEN Raise(value, FALSE, "TypeError")
    ELSE IF key = "Entity" /\ value.t = "str" /\ value.s \in DOMAIN tm
         THEN Ok(JStr(tm[value.s]), TRUE)
    ELSE IF key = "Entity" THEN Ok(value, TRUE)
    ELSE IF key = "entities" THEN UE_entities_branch(value, tm, v)
    ELSE IF key = "expression" /\ value.t = "str"
         THEN Rewritten(value.s, update_dax_expression(value.s, tm, EmptyMap, v))
    ELSE UE_traverse(value, tm, v)

\* the body of "for key, value in data.items()" for one key
UE_key(key, value, tm, v) ==
    IF key = "Entity" /\ ~Hashable(value) THEN Raise(value, FALSE, "TypeError")
    ELSE IF key = "Entity" /\ value.t = "str" /\ value.s \in DOMAIN tm
         THEN Ok(JStr(tm[value.s]), TRUE)
    ELSE IF key = "entities" THEN UE_entities_branch(value, tm, v)
    ELSE IF key = "expression" /\ value.t = "str"
         THEN Rewritten(value.s, update_dax_expression(value.s, tm, EmptyMap, v))
    ELSE UE_traverse(value, tm, v)

UE_dict_next(data, i, tm, v, r) ==
    IF r.err # "none" THEN InDict(data, i, r)
    ELSE After(r.updated, UE_dict(SetAt(data, i, r.data), i + 1, tm, v))

UE_dict(data, i, tm, v) ==
    IF i > Len(data.entries) THEN Ok(data, FALSE)
    ELSE UE_dict_next(data, i, tm, v, UE_key(data.entries[i].k, data.entries[i].v, tm, v))

UE_list_next(data, i, tm, v, r) ==
    IF r.err # "none" THEN InList(data, i, r)
    ELSE After(r.updated, UE_list(SetItem(data, i, r.data), i + 1, tm, v))

UE_list(data, i, tm, v) ==
    IF i > Len(data.items) THEN Ok(data, FALSE)
    ELSE UE_list_next(data, i, tm, v, UE_traverse(data.items[i], tm, v))

\* traverse_and_update(data) of update_entity
UE_traverse(data, tm, v) ==
    CASE data.t = "dict" -> UE_dict(data, 1, tm, v)
      [] data.t = "list" -> UE_list(data, 1, tm, v)
      [] OTHER -> Ok(data, FALSE)

update_entity(data, tm, v) == UE_traverse(data, tm, v)

----------------------------------------------------------------------------
(* update_property(data, column_map) *)

Got(x) == [err |-> "none", val |-> x]
Failed(e) == [err |-> e, val |-> PyNone]

\* Python: x.get(key, default); AttributeError unless x is a dict
PyGet(x, key, default) ==
    IF x.t # "dict" THEN Failed("AttributeError")
    ELSE IF HasKey(x, key) THEN Got(GetKey(x, key))
    ELSE Got(default)

\* Python: x[0]
PyFirst(x) ==
    CASE x.t = "list" -> IF x.items = <<>> THEN Failed("IndexError") ELSE Got(x.items[1])
      [] x.t = "str" -> IF x.s = <<>> THEN Failed("IndexError") ELSE Got(JStr(<<x.s[1]>>))
      [] x.t = "dict" -> Failed("KeyError")
      [] OTHER -> Failed("TypeError")

\* Python: x[key] for a str key
PyItem(x, key) ==
    CASE x.t = "dict" -> IF HasKey(x, key) THEN Got(GetKey(x, key)) ELSE Failed("KeyError")
      [] OTHER -> Failed("TypeError")

\* a step of a chain a.get(..).get(..): the exception of g stands, or the
\* next step is taken on what g got
GetNext(g, key, default) == IF g.err # "none" THEN g ELSE PyGet(g.val, key, default)
FirstNext(g) == IF g.err # "none" THEN g ELSE PyFirst(g.val)
ItemNext(g, key) == IF g.err # "none" THEN g ELSE PyItem(g.val, key)

EmptyDict == JDict(<<>>)

\* the value written at a path of keys; "0" is the index 0 of a list
RECURSIVE SetPath(_, _, _)
SetPath(x, path, val) ==
    IF path = <<>> THEN val
    ELSE IF Head(path) = "0" THEN SetItem(x, 1, SetPath(x.items[1], Tail(path), val))
    ELSE SetKey(x, Head(path), SetPath(GetKey(x, Head(path)), Tail(path), val))

\* the three statements under "if (entity, property) in column_map"
UP_column_set(value, key, cm, v) ==
    Ok(SetKey(SetPath(value, <<"Expression", "SourceRef", "Entity">>,
                      JStr(MappedTable(cm, key, v))),
              "Property", JStr(MappedColumn(cm, key, v))),
       TRUE)

\* the lookup by the property alone, whatever the entity
UP_column_lookup_any_table(value, entity, property, cm, v) ==
    IF ~(Truthiness(entity) /\ Truthiness(property)) THEN Ok(value, FALSE)
    ELSE IF ~Hashable(entity) \/ ~Hashable(property) THEN Raise(value, FALSE, "TypeError")
    ELSE IF entity.t = "str" /\ property.t = "str" /\ \E key \in DOMAIN cm : key[2] = property.s
         THEN UP_column_set(value, CHOOSE key \in DOMAIN cm : key[2] = property.s, cm, v)
    ELSE Ok(value, FALSE)

\* "if entity and property:" and the lookup of the pair, which hashes both
UP_column_lookup(value, entity, property, cm, v) ==
    IF ~(Truthiness(entity) /\ Truthiness(property)) THEN Ok(value, FALSE)
    ELSE IF ~Hashable(entity) \/ ~Hashable(property) THEN Raise(value, FALSE, "TypeError")
    ELSE IF entity.t = "str" /\ property.t = "str" /\ <<entity.s, property.s>> \in DOMAIN cm
         THEN UP_column_set(value, <<entity.s, property.s>>, cm, v)
    ELSE Ok(value, FALSE)

\* g: what value.get("Expression", {}).get("SourceRef", {}).get("Entity") gave
UP_column_entity(value, g, cm, v) ==
    IF g.err # "none" THEN Raise(value, FALSE, g.err)
    ELSE UP_column_lookup(value, g.val, PyGet(value, "Property", PyNone).val, cm, v)

\* the branch  if key in ["Column", "Measure"]
UP_column(value, cm, v) ==
    UP_column_entity(value,
        GetNext(GetNext(PyGet(value, "Expression", EmptyDict), "SourceRef", EmptyDict),
                "Entity", PyNone),
        cm, v)

ColumnPath == <<"Condition", "Not", "Expression", "In", "Expressions", "0", "Column">>

\* "if property:" and the lookup of (from_entity, property)
UP_condition_lookup(condition, from_entity, property, cm, v) ==
    IF ~Truthiness(property) THEN Ok(condition, FALSE)
    ELSE IF ~Hashable(from_entity) \/ ~Hashable(property)
         THEN Raise(condition, FALSE, "TypeError")
    ELSE IF from_entity.t = "str" /\ property.t = "str"
            /\ <<from_entity.s, property.s>> \in DOMAIN cm
         THEN Ok(SetPath(condition, ColumnPath \o <<"Property">>,
                         JStr(MappedColumn(cm, <<from_entity.s, property.s>>, v))),
                 TRUE)
    ELSE Ok(condition, FALSE)

\* g: what column.get("Property") gave
UP_condition_property(condition, from_entity, g, cm, v) ==
    IF g.err # "none" THEN Raise(condition, FALSE, g.err)
    ELSE UP_condition_lookup(condition, from_entity, g.val, cm, v)

\* column = condition.get("Condition", {}).get("Not", {}).get("Expression", {})
\*          .get("In", {}).get("Expressions", [{}])[0].get("Column", {})
ConditionColumn(condition) ==
    GetNext(FirstNext(GetNext(GetNext(GetNext(GetNext(
        PyGet(condition, "Condition", EmptyDict),
        "Not", EmptyDict), "Expression", EmptyDict), "In", EmptyDict),
        "Expressions", JList(<<EmptyDict>>))), "Column", EmptyDict)

\* the body of "for condition in value['Where']" for one condition
UP_condition(condition, from_entity, cm, v) ==
    UP_condition_property(condition, from_entity,
        GetNext(ConditionColumn(condition), "Property", PyNone), cm, v)

\* "for condition in value['Where']" on the list where, from element i on
RECURSIVE UP_where(_, _, _, _, _)
UP_where_next(where, i, from_entity, cm, v, r) ==
    IF r.err # "none" THEN InList(where, i, r)
    ELSE After(r.updated, UP_where(SetItem(where, i, r.data), i + 1, from_entity, cm, v))

UP_where(where, i, from_entity, cm, v) ==
    IF i > Len(where.items) THEN Ok(where, FALSE)
    ELSE UP_where_next(where, i, from_entity, cm, v,
                       UP_condition(where.items[i], from_entity, cm, v))

\* the loop over value["Where"], whatever it is: the keys of a dict and the
\* characters of a str are str, which have no get
UP_where_branch(where, from_entity, cm, v) ==
    CASE where.t = "list" -> UP_where(where, 1, from_entity, cm, v)
      [] where.t \in {"dict", "str"} ->
           IF where.s = <<>> /\ where.entries = <<>> THEN Ok(where, FALSE)
           ELSE Raise(where, FALSE, "AttributeError")
      [] OTHER -> Raise(where, FALSE, "TypeError")

\* g: what value["From"][0]["Entity"] gave
UP_filter_from(value, g, cm, v) ==
    IF g.err # "none" THEN Raise(value, FALSE, g.err)
    ELSE InDict(value, KeyIndex(value, "Where"),
                UP_where_branch(GetKey(value, "Where"), g.val, cm, v))

\* the branch  elif key == "filter"
UP_filter(value, cm, v) ==
    IF PyIn("From", value) = "raise" THEN Raise(value, FALSE, "TypeError")
    ELSE IF PyIn("From", value) = "no" \/ PyIn("Where", value) = "no" THEN Ok(value, FALSE)
    ELSE UP_filter_from(value, ItemNext(FirstNext(PyItem(value, "From")), "Entity"), cm, v)

RECURSIVE UP_traverse(_, _, _)
RECURSIVE UP_dict(_, _, _, _)
RECURSIVE UP_list(_, _, _, _)

\* the body with a descent into the value of a Column or Measure key
\* after its rule
UP_key_descending(key, value, cm, v) ==
    IF key \in {"Column", "Measure"}
    THEN IF UP_column(value, cm, v).err # "none" THEN UP_column(value, cm, v)
         ELSE After(UP_column(value, cm, v).updated,
                    UP_traverse(UP_column(value, cm, v).data, cm, v))
    ELSE IF key = "expression" /\ value.t = "str"
         THEN Rewritten(value.s, update_dax_expression(value.s, EmptyMap, cm, v))
    ELSE IF key = "filter" THEN UP_filter(value, cm, v)
    ELSE UP_traverse(value, cm, v)

\* the body of "for key, value in data.items()" for one key
UP_key(key, value, cm, v) ==
    IF key \in {"Column", "Measure"} THEN UP_column(value, cm, v)
    ELSE IF key = "expression" /\ value.t = "str"
         THEN Rewritten(value.s, update_dax_expression(value.s, EmptyMap, cm, v))
    ELSE IF key = "filter" THEN UP_filter(value, cm, v)
    ELSE UP_traverse(value, cm, v)

UP_dict_next(data, i, cm, v, r) ==
    IF r.err # "none" THEN InDict(data, i, r)
    ELSE After(r.updated, UP_dict(SetAt(data, i, r.data), i + 1, cm, v))

UP_dict(data, i, cm, v) ==
    IF i > Len(data.entries) THEN Ok(data, FALSE)
    ELSE UP_dict_next(data, i, cm, v, UP_key(data.entries[i].k, data.entries[i].v, cm, v))

UP_list_next(data, i, cm, v, r) ==
    IF r.err # "none" THEN InList(data, i, r)
    ELSE After(r.updated, UP_list(SetItem(data, i, r.data), i + 1, cm, v))

UP_list(data, i, cm, v) ==
    IF i > Len(data.items) THEN Ok(data, FALSE)
    ELSE UP_list_next(data, i, cm, v, UP_traverse(data.items[i], cm, v))

\* traverse_and_update(data) of update_property
UP_traverse(data, cm, v) ==
    CASE data.t = "dict" -> UP_dict(data, 1, cm, v)
      [] data.t = "list" -> UP_list(data, 1, cm, v)
      [] OTHER -> Ok(data, FALSE)

update_property(data, cm, v) == UP_traverse(data, cm, v)

----------------------------------------------------------------------------
(* load_csv_mapping and the mapping loop of update_json_files_in_directory *)

Row(ot, oc, nt, nc) == [old_tbl |-> ot, old_col |-> oc, new_tbl |-> nt, new_col |-> nc]

expected_columns == {"old_tbl", "old_col", "new_tbl", "new_col"}

\* the test that raises ValueError
SchemaOk(fieldnames) == \A col \in expected_columns : col \in fieldnames

\* if old_tbl and (new_tbl or (old_col and new_col))
RowAccepted(row) ==
    row.old_tbl # <<>> /\ (row.new_tbl # <<>> \/ (row.old_col # <<>> /\ row.new_col # <<>>))

\* load_csv_mapping without the test of the field names
load_csv_mapping_unchecked(c) ==
    [err |-> "none", mappings |-> SelectSeq(c.rows, RowAccepted)]

\* load_csv_mapping(csv_path): the rows kept, or the exception raised
load_csv_mapping(c) ==
    IF ~SchemaOk(c.fieldnames)
    THEN [err |-> "ValueError", mappings |-> <<>>]
    ELSE [err |-> "none", mappings |-> SelectSeq(c.rows, RowAccepted)]

\* Python: m[k] = val
MapSet(m, k, val) == [x \in DOMAIN m \cup {k} |-> IF x = k THEN val ELSE m[x]]

\* Python: m.get(k, default)
MapGet(m, k, default) == IF k \in DOMAIN m THEN m[k] ELSE default

\* if new_tbl and new_tbl != old_tbl: table_map[old_tbl] = new_tbl
RowTableMap(row, tm) ==
    IF row.new_tbl # <<>> /\ row.new_tbl # row.old_tbl
    THEN MapSet(tm, row.old_tbl, row.new_tbl)
    ELSE tm

\* column_map[(effective_tbl, old_col)] = ...: the new column in
\* pbir_utils.py, the pair (effective_tbl, new_col) in the script
RowColumnSet(row, cm, effective_tbl, v) ==
    MapSet(cm, <<effective_tbl, row.old_col>>,
           IF v = "pbir_utils" THEN row.new_col ELSE <<effective_tbl, row.new_col>>)

\* the column rule keyed by the old table name, the table map left aside
RowColumnMap_unresolved(row, tm, cm, v) ==
    IF row.old_col # <<>> /\ row.new_col # <<>>
    THEN RowColumnSet(row, cm, row.old_tbl, v)
    ELSE cm

\* if old_col and new_col: ..., with the table map as the row left it
RowColumnMap(row, tm, cm, v) ==
    IF row.old_col # <<>> /\ row.new_col # <<>>
    THEN RowColumnSet(row, cm, MapGet(tm, row.old_tbl, row.old_tbl), v)
    ELSE cm

RowMaps(row, tm, cm, v) == [table_map |-> tm, column_map |-> RowColumnMap(row, tm, cm, v)]

\* the body of "for row in mappings" for one row, on the maps built so far
ResolveRow(row, maps, v) ==
    RowMaps(row, RowTableMap(row, maps.table_map), maps.column_map, v)

\* "for row in mappings", from row i on
RECURSIVE ResolveFrom(_, _, _, _)
ResolveFrom(rows, i, maps, v) ==
    IF i > Len(rows) THEN maps
    ELSE ResolveFrom(rows, i + 1, ResolveRow(rows[i], maps, v), v)

BuildMapsOf(rows, v) ==
    ResolveFrom(rows, 1, [table_map |-> EmptyMap, column_map |-> EmptyMap], v)

----------------------------------------------------------------------------
(* process_json_file(file_path, table_map, column_map) *)

\* A file of the directory: whether its name ends with .json, whether it
\* can be opened for reading and for writing, what its bytes are ("json":
\* a document, "bad_json": text json.load rejects, "bad_utf8": bytes that
\* are not UTF-8) and, for a document, the value json.load returns.
File(ext, rd, wr, content, data) ==
    [json_ext |-> ext, readable |-> rd, writable |-> wr, content |-> content, data |-> data]

JsonFile(data) == File(TRUE, TRUE, TRUE, "json", data)

\* the entity pass as process_json_file calls it: pbir_utils.py calls it
\* under "if table_map:", the script calls it always
EntityStep(data, tm, v) ==
    IF v = "pbir_utils" /\ ~Truthy(tm)
    THEN [ran |-> FALSE, res |-> Ok(data, FALSE)]
    ELSE [ran |-> TRUE, res |-> update_entity(data, tm, v)]

\* the property pass as process_json_file calls it
PropertyStep(data, cm, v) ==
    IF v = "pbir_utils" /\ ~Truthy(cm)
    THEN [ran |-> FALSE, res |-> Ok(data, FALSE)]
    ELSE [ran |-> TRUE, res |-> update_property(data, cm, v)]

\* what the call has done when nothing has been opened yet
NotOpened(f) ==
    [outcome |-> "ok", opened_r |-> FALSE, opened_w |-> FALSE, wrote |-> FALSE,
     entity_ran |-> FALSE, property_ran |-> FALSE,
     entity_updated |-> FALSE, property_updated |-> FALSE,
     after_entity |-> f.data, data |-> f.data, file |-> f]

\* PJF_write with "and" for "or" in the test of the two flags
PJF_write_both_flags(f, c) ==
    IF ~(c.entity_updated /\ c.property_updated) THEN c
    ELSE IF ~f.writable THEN [c EXCEPT !.opened_w = TRUE, !.outcome = "IOError"]
    ELSE [c EXCEPT !.opened_w = TRUE, !.wrote = TRUE, !.file = [f EXCEPT !.data = c.data]]

\* if entity_updated or property_updated: open(file_path, 'w'); json.dump.
\* opened_w: open(file_path, 'w') was called; wrote: it succeeded and
\* json.dump wrote the tree
PJF_write(f, c) ==
    IF ~(c.entity_updated \/ c.property_updated) THEN c
    ELSE IF ~f.writable THEN [c EXCEPT !.opened_w = TRUE, !.outcome = "IOError"]
    ELSE [c EXCEPT !.opened_w = TRUE, !.wrote = TRUE, !.file = [f EXCEPT !.data = c.data]]

\* p: what the property pass did
PJF_property(f, c, p) ==
    IF p.res.err # "none"
    THEN [c EXCEPT !.property_ran = p.ran, !.data = p.res.data, !.outcome = p.res.err]
    ELSE PJF_write(f, [c EXCEPT !.property_ran = p.ran, !.data = p.res.data,
                                !.property_updated = p.res.updated])

\* e: what the entity pass did
PJF_entity(f, cm, v, c, e) ==
    IF e.res.err # "none"
    THEN [c EXCEPT !.entity_ran = e.ran, !.after_entity = e.res.data,
                   !.data = e.res.data, !.outcome = e.res.err]
    ELSE PJF_property(f, [c EXCEPT !.entity_ran = e.ran, !.after_entity = e.res.data,
                                   !.data = e.res.data, !.entity_updated = e.res.updated],
                      PropertyStep(e.res.data, cm, v))

\* The whole call on file f.  outcome: "ok" (returned from the try block),
\* "JSONDecodeError" or "IOError" (caught and printed), or the name of an
\* exception that no except clause of process_json_file catches.
process_json_file(f, tm, cm, v) ==
    IF ~f.readable THEN [NotOpened(f) EXCEPT !.outcome = "IOError"]
    ELSE IF f.content = "bad_utf8"
         THEN [NotOpened(f) EXCEPT !.outcome = "UnicodeDecodeError", !.opened_r = TRUE]
    ELSE IF f.content = "bad_json"
         THEN [NotOpened(f) EXCEPT !.outcome = "JSONDecodeError", !.opened_r = TRUE]
    ELSE PJF_entity(f, cm, v, [NotOpened(f) EXCEPT !.opened_r = TRUE],
                    EntityStep(f.data, tm, v))

\* the exceptions process_json_file catches itself
CaughtPerFile == {"JSONDecodeError", "IOError"}

----------------------------------------------------------------------------
(* The inputs: rule files, documents, directories *)

MaxRules == 2     \* rows of the CSV file
NFiles == 2       \* files of a directory with several files
MaxRuns == 2      \* runs of the batch over the same directory
MaxLen == 3       \* length of the expressions enumerated in full

RowSet ==
    { Row(S_, <<>>, R_, <<>>),      \* a table rename
      Row(R_, <<>>, S_, <<>>),      \* with the first: a swap
      Row(S_, A_, R_, T_),          \* a table rename and a column rename
      Row(S_, A_, <<>>, T_),        \* a column rename
      Row(S_, A_, R_, A_),          \* a table rename that repeats the column
      Row(S_, <<>>, SH_, <<>>) }    \* a new name with a blank

\* rows the loader drops: no old_tbl; neither a new table nor a column pair
DroppedRows == <<Row(<<>>, A_, R_, T_), Row(S_, A_, <<>>, <<>>)>>

RowLists == UNION {[1..n -> RowSet] : n \in 0..MaxRules}

CsvFiles ==
    {[fieldnames |-> expected_columns, rows |-> rows] : rows \in RowLists}
    \cup {[fieldnames |-> expected_columns, rows |-> DroppedRows \o <<Row(S_, <<>>, R_, <<>>)>>]}
    \cup {[fieldnames |-> expected_columns \ {col}, rows |-> <<Row(S_, <<>>, R_, <<>>)>>] :
            col \in expected_columns}

\* the nodes the report documents are made of
SourceRef(e) == JDict(<<Entry("SourceRef", JDict(<<Entry("Entity", e)>>))>>)
ColumnNode(e, p) == JDict(<<Entry("Expression", SourceRef(e)), Entry("Property", p)>>)
InNode(expressions) ==
    JDict(<<Entry("Condition", JDict(<<Entry("Not", JDict(<<Entry("Expression",
        JDict(<<Entry("In", JDict(<<Entry("Expressions", expressions)>>))>>))>>))>>))>>)
Condition(e, p) == InNode(JList(<<JDict(<<Entry("Column", ColumnNode(e, p))>>)>>))
FilterNode(from, where) == JDict(<<Entry("From", from), Entry("Where", where)>>)
FromOf(e) == JList(<<JDict(<<Entry("Name", JStr(<<"s">>)), Entry("Entity", e)>>)>>)
Doc1(k, val) == JDict(<<Entry(k, val)>>)

TableNames == {S_, R_}
ColumnNames == {A_, T_}

\* expressions of the documents
DocExpressions ==
    { <<"S", "[", "A", "]">>,
      <<"'", "S", "'", "[", "A", "]">>,
      <<"R", "[", "A", "]">>,
      <<"[", "S", " ", "A", "]">>,
      <<"'", "S", " ", "H", "'", "[", "A", "]">> }

WellFormedDocs ==
    {Doc1("Entity", JStr(e)) : e \in TableNames \cup {T_}}
    \cup {Doc1(k, ColumnNode(JStr(e), JStr(p))) :
            k \in {"Column", "Measure"}, e \in TableNames, p \in ColumnNames}
    \cup {Doc1("expression", JStr(x)) : x \in DocExpressions}
    \cup {Doc1("entities", JList(<<JDict(<<Entry("name", JStr(e)),
                                             Entry("expression", JStr(<<"S", "[", "A", "]">>))>>)>>)) :
            e \in TableNames}
    \cup {Doc1("filter", FilterNode(FromOf(JStr(e)), JList(<<Condition(JStr(e2), JStr(p))>>))) :
            e \in TableNames, e2 \in TableNames, p \in ColumnNames}
    \cup { \* a Where entry without the nested path, next to one with it
           Doc1("filter", FilterNode(FromOf(JStr(S_)),
                JList(<<JDict(<<Entry("Condition", JDict(<<>>))>>), Condition(JStr(S_), JStr(A_))>>))),
           \* a filter without Where
           Doc1("filter", JDict(<<Entry("From", FromOf(JStr(S_)))>>)),
           \* a visual: columns and a filter deeper in the tree
           Doc1("visual", JDict(<<
                Entry("query", JList(<<Doc1("Column", ColumnNode(JStr(S_), JStr(A_))),
                                       Doc1("Measure", ColumnNode(JStr(R_), JStr(A_)))>>)),
                Entry("filter", FilterNode(FromOf(JStr(S_)),
                                           JList(<<Condition(JStr(S_), JStr(A_))>>))),
                Entry("expression", JStr(<<"S", "[", "A", "]">>)),
                Entry("count", JNum(1)),
                Entry("Entity", JNull)>>)),
           \* Column and Measure nodes that lack the entity or the property
           Doc1("Column", JDict(<<Entry("Expression", SourceRef(JStr(S_)))>>)),
           Doc1("Column", JDict(<<Entry("Property", JStr(A_))>>)),
           Doc1("Measure", JDict(<<Entry("Expression", JDict(<<>>)), Entry("Property", JStr(A_))>>)),
           Doc1("Measure", JDict(<<Entry("Expression", Doc1("SourceRef", JDict(<<>>))),
                                   Entry("Property", JStr(A_))>>)),
           \* a filter without Where that holds a column and an expression
           Doc1("filter", JDict(<<Entry("From", FromOf(JStr(S_))),
                                  Entry("Column", ColumnNode(JStr(S_), JStr(A_))),
                                  Entry("expression", JStr(<<"S", "[", "A", "]">>))>>)),
           \* an expression inside the value of a Measure key
           Doc1("Measure", JDict(<<Entry("Expression", SourceRef(JStr(S_))),
                                   Entry("Property", JStr(A_)),
                                   Entry("expression", JStr(<<"S", "[", "A", "]">>))>>)),
           \* a column inside the value of a Column key
           Doc1("Column", JDict(<<Entry("Expression", SourceRef(JStr(S_))),
                                  Entry("Property", JStr(A_)),
                                  Entry("Column", ColumnNode(JStr(S_), JStr(A_)))>>)) }

\* documents that are JSON but not of the report schema
MalformedDocs ==
    { Doc1("Entity", JList(<<>>)),
      Doc1("Entity", JNum(1)),
      Doc1("Column", JStr(S_)),
      Doc1("Column", JDict(<<Entry("Expression", JNull), Entry("Property", JStr(A_))>>)),
      Doc1("Measure", JDict(<<>>)),
      Doc1("filter", FilterNode(JList(<<>>), JList(<<>>))),
      Doc1("filter", FilterNode(FromOf(JStr(S_)), JList(<<InNode(JList(<<>>))>>))),
      Doc1("filter", JNull),
      Doc1("filter", JDict(<<>>)),
      Doc1("entities", JNum(1)),
      Doc1("entities", JList(<<JStr(NAME_)>>)),
      Doc1("entities", JStr(NAME_)),
      Doc1("expression", JNum(1)),
      JList(<<>>),
      JNull }

Docs == WellFormedDocs \cup MalformedDocs

\* the files of a directory with several files
BatchFiles ==
    { JsonFile(Doc1("Entity", JStr(S_))),
      JsonFile(Doc1("Entity", JStr(T_))),
      File(TRUE, TRUE, FALSE, "json", Doc1("Entity", JStr(S_))),   \* read-only
      File(TRUE, FALSE, TRUE, "json", JNull),                      \* unreadable
      File(TRUE, TRUE, TRUE, "bad_json", JNull),
      File(TRUE, TRUE, TRUE, "bad_utf8", JNull),
      File(FALSE, TRUE, TRUE, "json", Doc1("Entity", JStr(S_))) }  \* not *.json

BatchCsvFiles ==
    { [fieldnames |-> expected_columns, rows |-> <<Row(S_, <<>>, R_, <<>>)>>],
      [fieldnames |-> expected_columns \ {"new_col"}, rows |-> <<Row(S_, <<>>, R_, <<>>)>>] }

Variants == {"pbir_utils", "update_attribute_names_pbir"}

\* the characters of the expressions enumerated in full
DaxChars == {"S", "A", QUOTE, "[", "]", " "}

\* longer expressions
DaxExamples ==
    { <<"S", "[", "A", "]">>,
      <<"[", "S", " ", "]">>,
      <<"'", "S", "'", "[", "A", "]">>,
      <<"T", "[", "S", " ", "A", "]">>,
      <<"'", "S", "'", "'", "[", "A", "]">>,
      <<"S", "[", "A", "]", " ", "S", "[", "T", "]">>,
      <<"'", "S", " ", "H", "'", "[", "A", "]">>,
      <<"R", "[", "A", "]", " ", "'", "S", "'">>,
      <<"'", "S", "'", " ", "A">> }

DaxExpressions == UNION {[1..n -> DaxChars] : n \in 0..MaxLen} \cup DaxExamples

\* the rule files the expressions are rewritten under
DaxRowLists ==
    { <<>>,
      <<Row(S_, <<>>, R_, <<>>)>>,
      <<Row(S_, <<>>, SH_, <<>>)>>,
      <<Row(S_, A_, R_, T_)>>,
      <<Row(S_, A_, <<>>, T_)>>,
      <<Row(S_, A_, <<>>, T_), Row(S_, <<>>, R_, <<>>)>> }


----------------------------------------------------------------------------
(* The batch: update_json_files_in_directory(directory_path, csv_path) *)

NoExpression == <<>>

InitCommon ==
    /\ variant \in Variants
    /\ pc = "main"
    /\ mappings = <<>>
    /\ table_map = EmptyMap
    /\ column_map = EmptyMap
    /\ orig = files
    /\ idx = 1
    /\ run = 1
    /\ trace = <<>>
    /\ expression0 = NoExpression
    /\ expression = NoExpression

\* a directory with one document, under every rule file
InitDocument ==
    /\ csv \in CsvFiles
    /\ files \in {<<JsonFile(d)>> : d \in Docs}
    /\ InitCommon

\* a directory with several files
InitDirectory ==
    /\ csv \in BatchCsvFiles
    /\ files \in UNION {[1..n -> BatchFiles] : n \in 2..NFiles}
    /\ InitCommon

\* a call of update_dax_expression with both maps, as the resolver builds
\* them from a rule file
InitDax ==
    /\ variant \in Variants
    /\ csv \in {[fieldnames |-> expected_columns, rows |-> rows] : rows \in DaxRowLists}
    /\ mappings = load_csv_mapping(csv).mappings
    /\ table_map = BuildMapsOf(mappings, variant).table_map
    /\ column_map = BuildMapsOf(mappings, variant).column_map
    /\ expression0 \in DaxExpressions
    /\ expression = expression0
    /\ pc = "dax_call"
    /\ files = <<>>
    /\ orig = files
    /\ idx = 1
    /\ run = 1
    /\ trace = <<>>

Init == InitDocument \/ InitDirectory \/ InitDax


\* r: what load_csv_mapping(csv_path) gave
Loaded(r) ==
    IF r.err # "none"
    THEN /\ pc' = "done"
         /\ mappings' = <<>>
         /\ trace' = Append(trace, [run |-> run, file |-> 0, outcome |-> r.err])
    ELSE /\ pc' = "maps"
         /\ mappings' = r.mappings
         /\ trace' = trace

\* mappings = load_csv_mapping(csv_path); ValueError ends the batch in the
\* except clause of update_json_files_in_directory
LoadCsvMapping ==
    /\ pc = "main"
    /\ Loaded(load_csv_mapping(csv))
    /\ UNCHANGED <<variant, csv, table_map, column_map, files, orig, idx, run,
                   expression0, expression>>

\* maps: what the loop "for row in mappings" built
Built(maps) ==
    /\ table_map' = maps.table_map
    /\ column_map' = maps.column_map

\* the loop "for row in mappings"
BuildMaps ==
    /\ pc = "maps"
    /\ Built(BuildMapsOf(mappings, variant))
    /\ idx' = 1
    /\ pc' = "walk"
    /\ UNCHANGED <<variant, csv, mappings, files, orig, run, trace, expression0, expression>>

\* p: what process_json_file did with file f; an exception it does not
\* catch leaves the loops and ends the batch
Processed(f, p) ==
    /\ trace' = Append(trace, [run |-> run, file |-> idx, outcome |-> p.outcome,
                               call |-> p, before |-> f,
                               table_map |-> table_map, column_map |-> column_map])
    /\ files' = [files EXCEPT ![idx] = p.file]
    /\ IF p.outcome \in CaughtPerFile \cup {"ok"}
       THEN idx' = idx + 1 /\ pc' = pc
       ELSE idx' = idx /\ pc' = "done"

\* one turn of "for file in files": the file is skipped unless its name ends
\* with .json
ProcessFile ==
    /\ pc = "walk"
    /\ idx <= Len(files)
    /\ IF ~files[idx].json_ext
       THEN /\ idx' = idx + 1
            /\ UNCHANGED <<pc, files, trace>>
       ELSE Processed(files[idx], process_json_file(files[idx], table_map, column_map, variant))
    /\ UNCHANGED <<variant, csv, mappings, table_map, column_map, orig, run,
                   expression0, expression>>

\* os.walk is exhausted: the function returns
WalkDone ==
    /\ pc = "walk"
    /\ idx > Len(files)
    /\ pc' = "done"
    /\ UNCHANGED <<variant, csv, mappings, table_map, column_map, files, orig, idx, run,
                   trace, expression0, expression>>

\* the tool is run again on the same directory with the same rule file
RunAgain ==
    /\ pc = "done"
    /\ run < MaxRuns
    /\ run' = run + 1
    /\ pc' = "main"
    /\ mappings' = <<>>
    /\ table_map' = EmptyMap
    /\ column_map' = EmptyMap
    /\ idx' = 1
    /\ UNCHANGED <<variant, csv, files, orig, trace, expression0, expression>>

\* a call update_dax_expression(expression, table_map, column_map)
UpdateDaxExpression ==
    /\ pc = "dax_call"
    /\ expression' = update_dax_expression(expression0, table_map, column_map, variant)
    /\ pc' = "dax_return"
    /\ UNCHANGED <<variant, csv, mappings, table_map, column_map, files, orig, idx, run,
                   trace, expression0>>

Next ==
    \/ LoadCsvMapping
    \/ BuildMaps
    \/ ProcessFile
    \/ WalkDone
    \/ RunAgain
    \/ UpdateDaxExpression

Spec == Init /\ [][Next]_vars

----------------------------------------------------------------------------
(* Properties *)

\* the calls of process_json_file made so far
Calls == {i \in DOMAIN trace : trace[i].file # 0}

\* call j is the call of the next run on the file of call i, and finds the
\* tree that call i left
RunsAgainOn(i, j) ==
    /\ i \in Calls
    /\ j \in Calls
    /\ trace[j].file = trace[i].file
    /\ trace[j].run = trace[i].run + 1
    /\ trace[i].outcome = "ok"
    /\ trace[j].before.data = trace[i].call.data

\* the second of two runs changes nothing
NothingLeft(i, j) ==
    /\ trace[j].outcome = "ok"
    /\ ~trace[j].call.entity_updated
    /\ ~trace[j].call.property_updated
    /\ trace[j].call.data = trace[i].call.data

\* no new name of the maps is an old name of the maps
NoChain(tm, cm, v) ==
    /\ \A k \in DOMAIN tm : tm[k] \notin DOMAIN tm
    /\ \A key \in DOMAIN cm : <<MappedTable(cm, key, v), MappedColumn(cm, key, v)>> \notin DOMAIN cm

\* the tree holds a string under a key "expression"
RECURSIVE HasStringExpression(_)
HasStringExpression(x) ==
    CASE x.t = "dict" ->
           \E i \in 1..Len(x.entries) :
              \/ x.entries[i].k = "expression" /\ x.entries[i].v.t = "str"
              \/ HasStringExpression(x.entries[i].v)
      [] x.t = "list" -> \E i \in 1..Len(x.items) : HasStringExpression(x.items[i])
      [] OTHER -> FALSE

RECURSIVE BracketContents(_, _)
RECURSIVE BracketClose(_, _)
BracketClose(s, j) ==
    IF j > Len(s) THEN 0
    ELSE IF s[j] = "]" THEN j
    ELSE BracketClose(s, j + 1)

BracketFrom(s, i, j) ==
    IF j = 0 THEN <<>>
    ELSE <<SubSeq(s, i + 1, j - 1)>> \o BracketContents(s, j + 1)

BracketContents(s, i) ==
    IF i > Len(s) THEN <<>>
    ELSE IF s[i] = "[" THEN BracketFrom(s, i, BracketClose(s, i + 1))
    ELSE BracketContents(s, i + 1)

\* the exceptions the traversals raise on a tree they do not expect
TraversalErrors == {"TypeError", "AttributeError", "IndexError", "KeyError"}

\* C2: update_entity and update_property return true exactly when the tree
\* after the pass differs from the tree before it.
C2_FlagExact ==
    \A i \in Calls :
        trace[i].outcome = "ok" =>
            /\ trace[i].call.entity_updated <=> trace[i].call.after_entity # trace[i].before.data
            /\ trace[i].call.property_updated <=> trace[i].call.data # trace[i].call.after_entity

\* C3: a call of update_dax_expression with a table map and an empty column
\* map returns an expression whose bracketed texts are those of the input.
C3_BracketsUntouched ==
    (pc = "dax_return" /\ ~Truthy(column_map))
        => BracketContents(expression, 1) = BracketContents(expression0, 1)

\* C4: update_entity and update_property return normally on every JSON
\* value, whatever its shape.
C4_NeverRaises == \A i \in Calls : trace[i].outcome \notin TraversalErrors

\* C5: when the batch has ended and the rule file was accepted, every .json
\* file of the directory has been handed to process_json_file in this run,
\* whatever failed on the others.
C5_EveryFileProcessed ==
    (pc = "done" /\ SchemaOk(csv.fieldnames)) =>
        \A k \in 1..Len(files) :
            files[k].json_ext => \E i \in Calls : trace[i].file = k /\ trace[i].run = run

\* a name in single quotes, and a reference qualifier[column]
Quoted(name) == <<QUOTE>> \o name \o <<QUOTE>>
Ref(qualifier, column) == qualifier \o <<"[">> \o column \o <<"]">>

\* the name of table t after the renames of the table map tm
Renamed(tm, t) == MapGet(tm, t, t)

\* the name of column c of the table now called t1, after the renames of
\* the column map cm
RenamedColumn(cm, t1, c) ==
    IF <<t1, c>> \in DOMAIN cm THEN MappedColumn(cm, <<t1, c>>, variant) ELSE c

\* the table and the column of call i of process_json_file after the renames
RenamedIn(i, t) == Renamed(trace[i].table_map, t)
RenamedColumnIn(i, t, c) == RenamedColumn(trace[i].column_map, RenamedIn(i, t), c)

\* the qualifier of a reference to the table now called t1
Qualifier(t1, quoted) == IF quoted \/ HasSpace(t1) THEN Quoted(t1) ELSE t1

\* a document  {k: {"Expression": {"SourceRef": {"Entity": e}}, "Property": p}}
ColumnDoc(k, e, p) == Doc1(k, ColumnNode(JStr(e), JStr(p)))

\* a document with a filter from table e whose one condition is on column
\* p of table e2
FilterDoc(e, e2, p) ==
    Doc1("filter", FilterNode(FromOf(JStr(e)), JList(<<Condition(JStr(e2), JStr(p))>>)))

\* x holds a value at the path of keys ("0": the index 0 of a list)
RECURSIVE HasPath(_, _)
HasPath(x, path) ==
    IF path = <<>> THEN TRUE
    ELSE IF Head(path) = "0"
         THEN x.t = "list" /\ x.items # <<>> /\ HasPath(x.items[1], Tail(path))
    ELSE x.t = "dict" /\ HasKey(x, Head(path)) /\ HasPath(GetKey(x, Head(path)), Tail(path))

\* the value at the path
RECURSIVE AtPath(_, _)
AtPath(x, path) ==
    IF path = <<>> THEN x
    ELSE IF Head(path) = "0" THEN AtPath(x.items[1], Tail(path))
    ELSE AtPath(GetKey(x, Head(path)), Tail(path))

PropertyPath == ColumnPath \o <<"Property">>
FromEntityPath == <<"filter", "From", "0", "Entity">>
WherePath == <<"filter", "Where">>

\* a document {"filter": {"From": [{"Entity": a string, ...}], "Where": [...]}}
IsFilterDoc(d) ==
    /\ d.t = "dict"
    /\ Len(d.entries) = 1
    /\ HasPath(d, FromEntityPath)
    /\ AtPath(d, FromEntityPath).t = "str"
    /\ HasPath(d, WherePath)
    /\ AtPath(d, WherePath).t = "list"

\* the entry of Where has the nested path down to a Property that is a string
HasProperty(entry) == HasPath(entry, PropertyPath) /\ AtPath(entry, PropertyPath).t = "str"

\* entry j of Where in the tree d
WhereEntry(d, j) == AtPath(d, WherePath).items[j]

\* the tokens S and 'S', and what follows them in the expressions
TokenSuffixes == {<<>>, <<"[", "A", "]">>, <<" ", "A">>}
Token(quoted) == IF quoted THEN Quoted(S_) ELSE S_

\* the document is {k: {"Expression": {"SourceRef": {"Entity": a string}},
\* "Property": a string}} and nothing else
EntityPath == <<"Expression", "SourceRef", "Entity">>
IsColumnDoc(d) ==
    /\ d.t = "dict"
    /\ Len(d.entries) = 1
    /\ d.entries[1].k \in {"Column", "Measure"}
    /\ HasPath(d.entries[1].v, EntityPath)
    /\ HasPath(d.entries[1].v, <<"Property">>)
    /\ d = ColumnDoc(d.entries[1].k, AtPath(d.entries[1].v, EntityPath).s,
                     AtPath(d.entries[1].v, <<"Property">>).s)

\* the Column or Measure node of call i has the renamed Entity and the
\* column that column_map holds for it
ColumnRewritten(i, k, e, p) ==
    trace[i].call.data = ColumnDoc(k, RenamedIn(i, e), RenamedColumnIn(i, e, p))

\* the document is a filter from a table with one condition on a column
IsFilterDoc1(d) ==
    /\ IsFilterDoc(d)
    /\ Len(AtPath(d, WherePath).items) = 1
    /\ HasProperty(WhereEntry(d, 1))
    /\ HasPath(WhereEntry(d, 1), ColumnPath \o EntityPath)
    /\ d = FilterDoc(AtPath(d, FromEntityPath).s,
                     AtPath(WhereEntry(d, 1), ColumnPath \o EntityPath).s,
                     AtPath(WhereEntry(d, 1), PropertyPath).s)

\* the filter of call i has the renamed tables and the column that
\* column_map holds for the renamed From[0].Entity
FilterRenamed(i, e, e2, p) ==
    trace[i].call.data = FilterDoc(RenamedIn(i, e), RenamedIn(i, e2), RenamedColumnIn(i, e, p))

\* C6: the column map is looked up with the table name as the table rename
\* left it.  A call of update_dax_expression on S[A] or 'S'[A] returns the
\* reference with the renamed table and the column that column_map holds
\* for (renamed table, A), and leaves A when only (S, A) is a key; under
\* the rule S,A -> R,T the expression 'S'[A] becomes 'R'[T].  A Column or
\* Measure node, and the condition of a filter, get the column that
\* column_map holds for the renamed Entity / From[0].Entity.
C6_PostRenameLookup ==
    /\ pc = "dax_return" =>
          /\ \A quoted \in BOOLEAN :
                expression0 = Ref(Token(quoted), A_)
                  => expression = Ref(Qualifier(Renamed(table_map, S_), quoted),
                                      RenamedColumn(column_map, Renamed(table_map, S_), A_))
          /\ (csv.rows = <<Row(S_, A_, R_, T_)>> /\ expression0 = Ref(Quoted(S_), A_))
                => expression = Ref(Quoted(R_), T_)
    /\ \A i \in Calls :
          /\ (trace[i].outcome = "ok" /\ IsColumnDoc(trace[i].before.data))
                => ColumnRewritten(i, trace[i].before.data.entries[1].k,
                                   AtPath(trace[i].before.data.entries[1].v, EntityPath).s,
                                   AtPath(trace[i].before.data.entries[1].v, <<"Property">>).s)
          /\ (trace[i].outcome = "ok" /\ IsFilterDoc1(trace[i].before.data))
                => FilterRenamed(i, AtPath(trace[i].before.data, FromEntityPath).s,
                                 AtPath(WhereEntry(trace[i].before.data, 1),
                                        ColumnPath \o EntityPath).s,
                                 AtPath(WhereEntry(trace[i].before.data, 1), PropertyPath).s)

\* 'S'[A] has become 'R'[T] under the rule S,A -> R,T
C6_Witness ==
    /\ pc = "dax_return"
    /\ csv.rows = <<Row(S_, A_, R_, T_)>>
    /\ expression0 = Ref(Quoted(S_), A_)
    /\ expression = Ref(Quoted(R_), T_)

\* the filter of call i after both passes: From[0].Entity is renamed; an
\* entry of Where whose Property, with the renamed From[0].Entity, is a key
\* of column_map has the new Property; every other entry is as the entity
\* pass left it
FilterRewritten(i) ==
    /\ trace[i].outcome = "ok"
    /\ AtPath(trace[i].call.data, FromEntityPath)
         = JStr(RenamedIn(i, AtPath(trace[i].before.data, FromEntityPath).s))
    /\ \A j \in 1..Len(AtPath(trace[i].before.data, WherePath).items) :
          IF /\ HasProperty(WhereEntry(trace[i].before.data, j))
             /\ <<RenamedIn(i, AtPath(trace[i].before.data, FromEntityPath).s),
                  AtPath(WhereEntry(trace[i].before.data, j), PropertyPath).s>>
                   \in DOMAIN trace[i].column_map
          THEN AtPath(WhereEntry(trace[i].call.data, j), PropertyPath)
                 = JStr(RenamedColumnIn(i, AtPath(trace[i].before.data, FromEntityPath).s,
                                        AtPath(WhereEntry(trace[i].before.data, j), PropertyPath).s))
          ELSE WhereEntry(trace[i].call.data, j) = WhereEntry(trace[i].call.after_entity, j)

\* C7: for a document with a filter that has From and Where, after the
\* entity pass and the property pass From[0].Entity is the renamed table,
\* every Where entry whose nested Property with that table is a key of
\* column_map has the new Property, and a Where entry that lacks the nested
\* path, or whose Property is no key, is left unchanged.
C7_FilterRewrite ==
    \A i \in Calls :
        /\ IsFilterDoc(trace[i].before.data)
        /\ Truthy(trace[i].table_map)
        /\ Truthy(trace[i].column_map)
        => FilterRewritten(i)

\* C8: the table pass keeps the quotes of a token it replaces, puts quotes
\* around a new name with a blank when the token had none, and writes the
\* new name bare otherwise: S[A] becomes 'S H'[A] under S -> S H, and
\* 'S'[A] becomes 'R'[A] under S -> R.
C8_QuotingPreserved ==
    /\ (pc = "dax_return" /\ ~Truthy(column_map) /\ S_ \in DOMAIN table_map) =>
          \A quoted \in BOOLEAN, suffix \in TokenSuffixes :
             expression0 = Token(quoted) \o suffix
               => expression = (IF quoted THEN Quoted(table_map[S_])
                                ELSE IF HasSpace(table_map[S_]) THEN Quoted(table_map[S_])
                                ELSE table_map[S_]) \o suffix
    /\ (pc = "dax_return" /\ csv.rows = <<Row(S_, <<>>, SH_, <<>>)>>
           /\ expression0 = Ref(S_, A_))
          => expression = Ref(Quoted(SH_), A_)
    /\ (pc = "dax_return" /\ csv.rows = <<Row(S_, <<>>, R_, <<>>)>>
           /\ expression0 = Ref(Quoted(S_), A_))
          => expression = Ref(Quoted(R_), A_)

\* S[A] has become 'S H'[A]
C8_Witness ==
    /\ pc = "dax_return"
    /\ csv.rows = <<Row(S_, <<>>, SH_, <<>>)>>
    /\ expression0 = Ref(S_, A_)
    /\ expression = Ref(Quoted(SH_), A_)

\* call i got as far as the passes: the file was read and parsed
Parsed(i) == trace[i].call.opened_r /\ trace[i].before.content = "json"

\* call i got as far as the test of the two flags
ReachedWrite(i) == Parsed(i) /\ trace[i].outcome \in {"ok", "IOError"}

\* the file is opened for writing exactly when a pass reported a change,
\* what is written is the tree after both passes, and a file that is not
\* written keeps its content
WriteBackExact(i) ==
    /\ ReachedWrite(i) =>
          (trace[i].call.opened_w
             <=> (trace[i].call.entity_updated \/ trace[i].call.property_updated))
    /\ ~ReachedWrite(i) => ~trace[i].call.opened_w
    /\ trace[i].call.wrote =>
          /\ trace[i].call.opened_w
          /\ trace[i].call.entity_ran = (variant # "pbir_utils" \/ Truthy(trace[i].table_map))
          /\ trace[i].call.property_ran = (variant # "pbir_utils" \/ Truthy(trace[i].column_map))
          /\ trace[i].call.file.data = trace[i].call.data
    /\ ~trace[i].call.wrote => trace[i].call.file = trace[i].before

SchemaViolated == ~SchemaOk(csv.fieldnames)

\* C10: when the rule file lacks one of the four field names,
\* load_csv_mapping fails and no document is read, rewritten or written,
\* in any run: the batch goes from its start to its end, no call of
\* process_json_file is made and the files stay as they were.
C10_SchemaStopsBatch ==
    SchemaViolated =>
        /\ pc \in {"main", "done"}
        /\ Calls = {}
        /\ files = orig
        /\ table_map = EmptyMap
        /\ column_map = EmptyMap
        /\ \A i \in DOMAIN trace : trace[i].outcome = "ValueError"

\* a batch over a directory with a file the rules would rewrite has ended
\* on the schema failure
C10_Witness ==
    /\ SchemaViolated
    /\ pc = "done"
    /\ trace # <<>>
    /\ trace[Len(trace)].outcome = "ValueError"
    /\ \E k \in 1..Len(files) : files[k] = JsonFile(Doc1("Entity", JStr(S_)))
    /\ files = orig

----------------------------------------------------------------------------
(* The maps the rule file resolves to *)

\* the maps of the batch are built: the walk is under way, or the rewriter
\* was called with them
MapsBuilt == pc \in {"walk", "dax_call", "dax_return"}

\* a row of the rule file that contributes: old_tbl is filled, and so is
\* new_tbl or the pair of columns
Contributes(row) ==
    /\ row.old_tbl # <<>>
    /\ row.new_tbl # <<>> \/ (row.old_col # <<>> /\ row.new_col # <<>>)

TableRule(row) == Contributes(row) /\ row.new_tbl # <<>> /\ row.new_tbl # row.old_tbl

ColumnRule(row) == Contributes(row) /\ row.old_col # <<>> /\ row.new_col # <<>>

\* the table rules for table t among the first k rows
TableRulesUpTo(rows, t, k) == {j \in 1..k : TableRule(rows[j]) /\ rows[j].old_tbl = t}

Latest(js) == CHOOSE j \in js : \A i \in js : i <= j

\* the name of table t after the first k rows
NameAfter(rows, t, k) ==
    IF TableRulesUpTo(rows, t, k) = {} THEN t
    ELSE rows[Latest(TableRulesUpTo(rows, t, k))].new_tbl

\* the key row k adds to the column map
KeyOf(rows, k) == <<NameAfter(rows, rows[k].old_tbl, k), rows[k].old_col>>

ColumnRules(rows) == {k \in 1..Len(rows) : ColumnRule(rows[k])}

\* C11: the table map sends each old_tbl that has a rule with a new_tbl,
\* filled and different from it, to the new_tbl of the last such rule; the
\* column map has one key for every rule with both columns, the pair of the
\* table's name after the rows up to and including that rule and its
\* old_col, and the key's new column is that of the last rule that adds the
\* key; the other rows add nothing.
C11_MappingResolution ==
    MapsBuilt =>
        /\ DOMAIN table_map =
              {csv.rows[j].old_tbl : j \in {j \in 1..Len(csv.rows) : TableRule(csv.rows[j])}}
        /\ \A t \in DOMAIN table_map : table_map[t] = NameAfter(csv.rows, t, Len(csv.rows))
        /\ DOMAIN column_map = {KeyOf(csv.rows, k) : k \in ColumnRules(csv.rows)}
        /\ \A key \in DOMAIN column_map :
              /\ MappedColumn(column_map, key, variant) =
                    csv.rows[Latest({k \in ColumnRules(csv.rows) : KeyOf(csv.rows, k) = key})].new_col
              /\ MappedTable(column_map, key, variant) = key[1]

\* a second rule for the same table overwrites the first, and the column
\* rule that comes with it is keyed by the new name
C11_Witness ==
    /\ pc = "walk"
    /\ csv.rows = <<Row(S_, <<>>, SH_, <<>>), Row(S_, A_, R_, T_)>>
    /\ table_map = MapSet(EmptyMap, S_, R_)
    /\ DOMAIN column_map = {<<R_, A_>>}

----------------------------------------------------------------------------
(* Column and Measure nodes in the property pass *)

\* x holds a string at the path
StringAt(x, path) == HasPath(x, path) /\ AtPath(x, path).t = "str"

\* what is there of Expression.SourceRef.Entity and of Property in the node
\* has the type of the report schema: mappings down to Entity, and strings
\* for Entity and Property
ColumnNodeTyped(node) ==
    /\ node.t = "dict"
    /\ HasKey(node, "Property") => GetKey(node, "Property").t = "str"
    /\ HasKey(node, "Expression") => GetKey(node, "Expression").t = "dict"
    /\ HasPath(node, <<"Expression", "SourceRef">>)
          => AtPath(node, <<"Expression", "SourceRef">>).t = "dict"
    /\ HasPath(node, EntityPath) => AtPath(node, EntityPath).t = "str"

\* the document is one Column or Measure key over such a node
IsColumnKeyDoc(d) ==
    /\ d.t = "dict"
    /\ Len(d.entries) = 1
    /\ d.entries[1].k \in {"Column", "Measure"}
    /\ ColumnNodeTyped(d.entries[1].v)

\* the node has an entity e and a property p, and (e, p) is a key of cm
ColumnNodeKey(node) == <<AtPath(node, EntityPath).s, AtPath(node, <<"Property">>).s>>
ColumnNodeHit(node, cm) ==
    /\ StringAt(node, EntityPath)
    /\ StringAt(node, <<"Property">>)
    /\ ColumnNodeKey(node) \in DOMAIN cm

\* the property pass of call i ran on a document that is one Column or
\* Measure key
ColumnPassOn(i) == trace[i].call.property_ran /\ IsColumnKeyDoc(trace[i].call.after_entity)

\* the node the property pass of call i was given, and the node it left
NodeBefore(i) == trace[i].call.after_entity.entries[1].v
NodeAfter(i) == trace[i].call.data.entries[1].v

----------------------------------------------------------------------------
(* Expressions that name nothing the maps hold *)

\* s[i..j] is a run of word characters that no word character continues
WordRun(s, i, j) ==
    /\ i <= j
    /\ \A k \in i..j : IsWord(s[k])
    /\ i = 1 \/ ~IsWord(s[i - 1])
    /\ j = Len(s) \/ ~IsWord(s[j + 1])

\* s[i..j] is a phrase of words and blanks between two single quotes
QuotedPhrase(s, i, j) ==
    /\ 1 < i /\ i <= j /\ j < Len(s)
    /\ s[i - 1] = QUOTE /\ s[j + 1] = QUOTE
    /\ \A k \in i..j : IsWord(s[k]) \/ IsSpace(s[k])

\* position i lies after a "[" that no "]" has closed
InBrackets(s, i) == \E j \in 1..(i - 1) : s[j] = "[" /\ \A k \in (j + 1)..(i - 1) : s[k] # "]"

\* the candidate table tokens of s: the quoted phrases and the word runs
\* that do not lie in a bracketed region
TableTokens(s) ==
    {SubSeq(s, i, j) : <<i, j>> \in
        {ij \in (1..Len(s)) \X (1..Len(s)) :
            /\ WordRun(s, ij[1], ij[2]) \/ QuotedPhrase(s, ij[1], ij[2])
            /\ ~InBrackets(s, ij[1])}}

\* s[j..k] is "[", a run of word characters, "]"
BracketedColumn(s, j, k) ==
    /\ j + 1 < k
    /\ s[j] = "[" /\ s[k] = "]"
    /\ \A m \in (j + 1)..(k - 1) : IsWord(s[m])

\* s[i..j-1] is a qualifier of the bracket at j: a word run, or a quoted
\* phrase with its closing quote at j-1
QualifierAt(s, i, j) ==
    \/ WordRun(s, i, j - 1)
    \/ j > 2 /\ QuotedPhrase(s, i, j - 2)

QualifierText(s, i, j) == IF s[j - 1] = QUOTE THEN SubSeq(s, i, j - 2) ELSE SubSeq(s, i, j - 1)

\* the pairs (qualifier without quotes, column) of the references
\* qualifier[column] in s
ColumnPairs(s) ==
    {<<QualifierText(s, ijk[1], ijk[2]), SubSeq(s, ijk[2] + 1, ijk[3] - 1)>> : ijk \in
        {x \in (1..Len(s)) \X (1..Len(s)) \X (1..Len(s)) :
            /\ x[1] < x[2]
            /\ BracketedColumn(s, x[2], x[3])
            /\ QualifierAt(s, x[1], x[2])}}

\* no table token of s is a key of tm and no pair of s is a key of cm
NoMatchIn(s, tm, cm) ==
    /\ TableTokens(s) \cap DOMAIN tm = {}
    /\ ColumnPairs(s) \cap DOMAIN cm = {}

\* the document is {"expression": a string}
IsExpressionDoc(d) ==
    /\ d.t = "dict"
    /\ Len(d.entries) = 1
    /\ d.entries[1].k = "expression"
    /\ d.entries[1].v.t = "str"

\* C13: update_dax_expression returns its input when no table token of the
\* input is a key of table_map and no qualifier[column] pair of it is a key
\* of column_map, and a document that is one such expression comes back
\* from process_json_file unchanged, with both flags false.
C13_NoMatchPassthrough ==
    /\ (pc = "dax_return" /\ NoMatchIn(expression0, table_map, column_map))
          => expression = expression0
    /\ \A i \in Calls :
          (/\ trace[i].outcome = "ok"
           /\ IsExpressionDoc(trace[i].before.data)
           /\ NoMatchIn(trace[i].before.data.entries[1].v.s,
                        trace[i].table_map, trace[i].column_map))
            => /\ trace[i].call.data = trace[i].before.data
               /\ ~trace[i].call.entity_updated
               /\ ~trace[i].call.property_updated

----------------------------------------------------------------------------
(* A table rename and a column rename of the same table, in any order *)

\* the column rules of the rule file for column c of table t
ColumnRulesFor(rows, t, c) ==
    {k \in ColumnRules(rows) : rows[k].old_tbl = t /\ rows[k].old_col = c}

\* the rule file renames table t and renames a column c of t
CombinedRename(rows, t, c) ==
    /\ TableRulesUpTo(rows, t, Len(rows)) # {}
    /\ ColumnRulesFor(rows, t, c) # {}

\* C14: the order of the rules does not matter.  Every key of the column
\* map carries the name its rule's old_tbl has in the finished table map;
\* and when the rule file renames table t and a column c of t, in either
\* order, a Column or Measure node (t, c) comes out of process_json_file
\* with the table's final name and with the new column of a rule for (t, c).
C14_RuleOrderIrrelevant ==
    /\ pc = "walk" =>
          \A k \in ColumnRules(csv.rows) :
              KeyOf(csv.rows, k)[1] = MapGet(table_map, csv.rows[k].old_tbl, csv.rows[k].old_tbl)
    /\ \A i \in Calls :
          (/\ trace[i].outcome = "ok"
           /\ IsColumnDoc(trace[i].before.data)
           /\ CombinedRename(csv.rows, ColumnNodeKey(trace[i].before.data.entries[1].v)[1],
                             ColumnNodeKey(trace[i].before.data.entries[1].v)[2]))
            => /\ IsColumnDoc(trace[i].call.data)
               /\ ColumnNodeKey(NodeAfter(i))[1] =
                     RenamedIn(i, ColumnNodeKey(trace[i].before.data.entries[1].v)[1])
               /\ \E k \in ColumnRulesFor(csv.rows,
                                          ColumnNodeKey(trace[i].before.data.entries[1].v)[1],
                                          ColumnNodeKey(trace[i].before.data.entries[1].v)[2]) :
                     ColumnNodeKey(NodeAfter(i))[2] = csv.rows[k].new_col

----------------------------------------------------------------------------
(* How far the property pass descends *)

\* the keys whose value the property pass handles without descending
HandledKeys == {"Column", "Measure", "filter"}

\* the key has a rule of the property pass for the value
HasRule(key, val) == key \in {"Column", "Measure"} \/ (key = "expression" /\ val.t = "str")

\* what the rule of the key makes of the value: the Column/Measure node
\* with the mapped table and column when its pair is a key of cm, the
\* expression after the column pass of update_dax_expression
RuleResult(key, val, cm) ==
    IF key = "expression" THEN JStr(ColumnPass(val.s, cm, variant))
    ELSE IF ColumnNodeHit(val, cm)
    THEN SetKey(SetPath(val, EntityPath, JStr(MappedTable(cm, ColumnNodeKey(val), variant))),
                "Property", JStr(MappedColumn(cm, ColumnNodeKey(val), variant)))
    ELSE val

\* a step into item j of a list, as a key
ListStep(j) == IF j = 1 THEN "[0]" ELSE "[]"

\* keys, the steps below a filter key, are
\* Where[.].Condition.Not.Expression.In.Expressions[0].Column
WhereColumn(keys) ==
    /\ Len(keys) = 9
    /\ keys[1] = "Where"
    /\ keys[2] \in {"[0]", "[]"}
    /\ SubSeq(keys, 3, 9) =
          <<"Condition", "Not", "Expression", "In", "Expressions", "[0]", "Column">>

\* a and b are the same but for the value of Property, if they have one
SameButProperty(a, b) ==
    IF a.t = "dict" /\ b.t = "dict" /\ HasKey(a, "Property") /\ HasKey(b, "Property")
    THEN SetKey(a, "Property", JNull) = SetKey(b, "Property", JNull)
    ELSE a = b

\* the property pass of call i ran, and returned
PropertyPassRan(i) == trace[i].call.property_ran
PropertyPassReturned(i) ==
    trace[i].call.property_ran /\ trace[i].outcome \notin TraversalErrors

\* the handled key that encloses the value of key k, and the steps below it
EnclosingOf(enc, k) == IF enc # "" THEN enc ELSE IF k \in HandledKeys THEN k ELSE ""
StepsBelow(enc, keys, k) == IF enc = "" THEN <<>> ELSE Append(keys, k)

\* b, the value of key before the property pass of call i, and d, the
\* value after it, with enc the outermost handled key around them ("" for
\* none) and keys the steps from that key down: the rule of the key is
\* applied where no handled key encloses the value; below a handled key
\* the value is kept, but for the Property of a filter's condition
RuleOrKept(i, key, b, d, enc, keys) ==
    IF ~HasRule(key, b) THEN TRUE
    ELSE IF enc = ""
    THEN PropertyPassReturned(i) => d = RuleResult(key, b, trace[i].column_map)
    ELSE IF enc = "filter" /\ WhereColumn(Append(keys, key))
    THEN SameButProperty(d, b)
    ELSE d = b

\* RuleOrKept at every key of the tree b, d being the tree after the pass
RECURSIVE Descent(_, _, _, _, _)
Descent(i, b, d, enc, keys) ==
    IF b.t = "dict"
    THEN /\ d.t = "dict"
         /\ Len(d.entries) = Len(b.entries)
         /\ \A j \in DOMAIN b.entries :
               /\ RuleOrKept(i, b.entries[j].k, b.entries[j].v, d.entries[j].v, enc, keys)
               /\ Descent(i, b.entries[j].v, d.entries[j].v,
                          EnclosingOf(enc, b.entries[j].k),
                          StepsBelow(enc, keys, b.entries[j].k))
    ELSE IF b.t = "list"
    THEN /\ d.t = "list"
         /\ Len(d.items) = Len(b.items)
         /\ \A j \in DOMAIN b.items :
               Descent(i, b.items[j], d.items[j], enc, StepsBelow(enc, keys, ListStep(j)))
    ELSE TRUE

\* the rule of the key is applied at every key of the tree b that has one,
\* wherever it lies, d being the tree after the pass
RECURSIVE RuleEverywhere(_, _, _)
RuleEverywhere(b, d, cm) ==
    IF b.t = "dict"
    THEN /\ d.t = "dict"
         /\ Len(d.entries) = Len(b.entries)
         /\ \A j \in DOMAIN b.entries :
               /\ HasRule(b.entries[j].k, b.entries[j].v)
                     => d.entries[j].v = RuleResult(b.entries[j].k, b.entries[j].v, cm)
               /\ RuleEverywhere(b.entries[j].v, d.entries[j].v, cm)
    ELSE IF b.t = "list"
    THEN /\ d.t = "list"
         /\ Len(d.items) = Len(b.items)
         /\ \A j \in DOMAIN b.items : RuleEverywhere(b.items[j], d.items[j], cm)
    ELSE TRUE

\* the original statement of C15: a property pass that returns has applied
\* its rule at every Column and Measure key and at every expression string
\* of the tree, wherever it lies.
C15_Original ==
    \A i \in Calls :
        PropertyPassReturned(i) =>
            RuleEverywhere(trace[i].call.after_entity, trace[i].call.data, trace[i].column_map)

\* C15: the property pass descends through lists and through the values of
\* all keys but Column, Measure and filter.  A pass that returns has
\* applied its rule at every Column and Measure key and every expression
\* string that lies under none of these keys.  Under a Column or Measure
\* key no inner Column, Measure or expression is changed; under a filter
\* key no expression is changed and a Column or Measure node can change in
\* its Property only, and only at
\* Where[.].Condition.Not.Expression.In.Expressions[0].Column.
C15_DescentStopsAtHandledKeys ==
    \A i \in Calls :
        PropertyPassRan(i) =>
            Descent(i, trace[i].call.after_entity, trace[i].call.data, "", <<>>)

\* the outer Column node (R, A) has got the column T, and the Column node
\* (R, A) inside its value has been left as it was
C15_Witness ==
    \E i \in Calls :
        /\ PropertyPassReturned(i)
        /\ HasPath(trace[i].call.after_entity, <<"Column", "Column">>)
        /\ AtPath(trace[i].call.after_entity, <<"Column", "Column">>) = ColumnNode(JStr(R_), JStr(A_))
        /\ <<R_, A_>> \in DOMAIN trace[i].column_map
        /\ AtPath(trace[i].call.data, <<"Column", "Property">>) = JStr(T_)
        /\ AtPath(trace[i].call.data, <<"Column", "Column">>) = ColumnNode(JStr(R_), JStr(A_))

----------------------------------------------------------------------------
(* The table rewrite of the expressions in the entity pass *)

\* every string under an expression key of the tree b is, in the tree d,
\* what one table pass of update_dax_expression makes of it
RECURSIVE RewrittenOnce(_, _, _)
RewrittenOnce(b, d, tm) ==
    IF b.t = "dict"
    THEN /\ d.t = "dict"
         /\ Len(d.entries) = Len(b.entries)
         /\ \A j \in DOMAIN b.entries :
               /\ (b.entries[j].k = "expression" /\ b.entries[j].v.t = "str")
                     => d.entries[j].v = JStr(TablePass(b.entries[j].v.s, tm))
               /\ RewrittenOnce(b.entries[j].v, d.entries[j].v, tm)
    ELSE IF b.t = "list"
    THEN /\ d.t = "list"
         /\ Len(d.items) = Len(b.items)
         /\ \A j \in DOMAIN b.items : RewrittenOnce(b.items[j], d.items[j], tm)
    ELSE TRUE

\* the source file that is not the one of this run
OtherVariant == CHOOSE v \in Variants : v # variant

\* C16: an entity pass that returns leaves every string under an
\* expression key, also one directly inside an element of an entities
\* list, as one table pass of update_dax_expression makes it, and
\* update_entity of the other source file gives the same tree and the same
\* flag.
C16_RewrittenOnce ==
    \A i \in Calls :
        (trace[i].call.entity_ran /\ trace[i].outcome = "ok") =>
            /\ RewrittenOnce(trace[i].before.data, trace[i].call.after_entity, trace[i].table_map)
            /\ trace[i].call.after_entity =
                  update_entity(trace[i].before.data, trace[i].table_map, OtherVariant).data
            /\ trace[i].call.entity_updated =
                  update_entity(trace[i].before.data, trace[i].table_map, OtherVariant).updated

====
